---- MODULE Spec2Model ----
(***************************************************************************)
(* Model of the two pieces of procedural logic of the repository:          *)
(*   - scripts/obfuscate.js, the post-build pass over prod-build/static/js *)
(*     (delete *.map, obfuscate *.js in place);                            *)
(*   - the AuthProvider of src/context/AuthContext.jsx (README section 5), *)
(*     which keeps the credential record AES-encrypted in sessionStorage.  *)
(* Spec is the post-build pass, SessionSpec the session component.         *)
(***************************************************************************)
EXTENDS Integers, Sequences, FiniteSets, TLC

VARIABLES
    pc,          \* position of the script: start, loop, obfuscate, write, done, failed
    dirExists,   \* whether prod-build/static/js exists
    fs,          \* the directory: name -> Absent or [kind, content]
    listing,     \* the array returned by readdirSync
    idx,         \* index of the entry the forEach callback is running on
    code,        \* local `code` of the callback
    obfuscated,  \* local `obfuscated` of the callback
    log,         \* lines written by console.log
    ops,         \* history: file-system and library calls made so far
    visited,     \* history: entries the callback has been invoked on
    dir0,        \* history: the directory before the pass
    failedAt,    \* history: index of the entry whose operation threw (0: the listing)
    spc,         \* session: unmounted, mounted, crashed
    storage,     \* session: sessionStorage["userData"]
    userData,    \* session: the useState value
    effectPending, \* session: the useEffect for the current userData has not run yet
    prev,        \* session history: record persisted by the page that was left
    untouched,   \* session history: no setUserData since the provider started
    stored0      \* session history: the entry read by the useState initialiser

buildVars == <<pc, dirExists, fs, listing, idx, code, obfuscated, log, ops,
               visited, dir0, failedAt>>
sessionVars == <<spc, storage, userData, effectPending, prev, untouched, stored0>>
vars == <<pc, dirExists, fs, listing, idx, code, obfuscated, log, ops,
          visited, dir0, failedAt,
          spc, storage, userData, effectPending, prev, untouched, stored0>>

(***************************************************************************)
(* Bounds.                                                                 *)
(***************************************************************************)
MaxEntries == 3
NumSalts == 2

(***************************************************************************)
(* File names are sequences of characters, so that endsWith is computed.   *)
(***************************************************************************)
DotMap == <<".", "m", "a", "p">>
DotJs == <<".", "j", "s">>

AJs == <<"a", ".", "j", "s">>
AJsMap == <<"a", ".", "j", "s", ".", "m", "a", "p">>
BMap == <<"b", ".", "m", "a", "p">>
CCss == <<"c", ".", "c", "s", "s">>
DJsx == <<"d", ".", "j", "s", "x">>
PlainMap == <<"m", "a", "p">>
EJs == <<"e", ".", "j", "s">>

FileNames == {AJs, AJsMap, BMap, CCss, DJsx, PlainMap, EJs}

EndsWith(s, suffix) ==
    /\ Len(s) >= Len(suffix)
    /\ SubSeq(s, Len(s) - Len(suffix) + 1, Len(s)) = suffix

\* A plausible slip: includes() instead of endsWith().
Includes(s, part) ==
    \E i \in 1..Len(s) :
        /\ i + Len(part) - 1 <= Len(s)
        /\ SubSeq(s, i, i + Len(part) - 1) = part

\* Slips of the suffix test: only ".js.map", or "map" without its dot.
IsJsMapOnly(file) == EndsWith(file, DotJs \o DotMap)
IsMapNoDot(file) == EndsWith(file, <<"m", "a", "p">>)
IsMap(file) == EndsWith(file, DotMap)

IsJsAnywhere(file) == Includes(file, DotJs)
IsJs(file) == EndsWith(file, DotJs)

(***************************************************************************)
(* Directory entries.  A file's content is the source text it came from    *)
(* and the number of times the obfuscator has been applied to it.          *)
(***************************************************************************)
Absent == [kind |-> "absent"]
EmptyContent == [src |-> <<>>, obf |-> 0]
OriginalContent(file) == [src |-> file, obf |-> 0]

\* JavaScriptObfuscator.obfuscate(code, {...}).getObfuscatedCode()
Obfuscate(text) == [text EXCEPT !.obf = @ + 1]

Present(d) == {f \in FileNames : d[f] # Absent}

Perms(S) ==
    {s \in [1..Cardinality(S) -> S] : \A i, j \in 1..Cardinality(S) : s[i] = s[j] => i = j}

\* Every directory of at most MaxEntries entries, each a regular file or a
\* subdirectory, whatever its name.
Directories ==
    UNION {{[f \in FileNames |->
                IF f \in S
                THEN [kind |-> k[f], content |-> OriginalContent(f)]
                ELSE Absent] : k \in [S -> {"file", "dir"}]} :
           S \in {T \in SUBSET FileNames : Cardinality(T) <= MaxEntries}}

EmptyDirectory == [f \in FileNames |-> Absent]

(***************************************************************************)
(* Log lines.                                                              *)
(***************************************************************************)
DeletedLine(file) == [text |-> "Deleted MAP:", file |-> file]
ObfuscatedLineCopied(file) == [text |-> "Deleted MAP:", file |-> file]
ObfuscatedLine(file) == [text |-> "Obfuscated:", file |-> file]

Call(op, file, ok) == [op |-> op, file |-> file, ok |-> ok]

\* An exception thrown inside the callback is not caught anywhere: forEach
\* stops and the process exits with a non-zero code.
SwallowError == [pc |-> "loop", idx |-> idx + 1]
OnError == [pc |-> "failed", idx |-> idx]

SkipOne == idx + 2
NextIndex == idx + 1

\* unlinkSync and readFileSync both throw on a directory.
CanUnlink(entry) == entry.kind = "file"
CanRead(entry) == entry.kind = "file"

\* What writeFileSync(filePath, obfuscated.getObfuscatedCode()) stores.
WriteOriginal == code
WrittenContent == obfuscated

(***************************************************************************)
(* src/context/AuthContext.jsx: JavaScript values, JSON text, ciphertext.  *)
(***************************************************************************)
SECRET_KEY == "MJskfsdfa345923@df"
OtherKey == "another passphrase"

Salts == 1..NumSalts

\* JavaScript values a credential record is made of.
Null == [t |-> "null"]
Undefined == [t |-> "undefined"]
Thrown == [t |-> "thrown"]
Str(s) == [t |-> "string", v |-> s]
Num(n) == [t |-> "number", v |-> n]
Obj(props) == [t |-> "object", props |-> props]

TokenValues == {Str("t"), Undefined}
IdValues == {Str("1"), Num("1"), Num("NaN")}
EmailValues == {Str("e@x.com"), Null}

\* The records setUserData is called with: token, id and email.
Records ==
    {Obj([token |-> a, id |-> b, email |-> c]) :
        a \in TokenValues, b \in IdValues, c \in EmailValues}

\* JSON.stringify: a member whose value is undefined is left out, NaN is
\* written as null.
JsonToken(a) ==
    IF a.t = "string" THEN [tok |-> "string", v |-> a.v]
    ELSE IF a.t = "number" /\ a.v # "NaN" THEN [tok |-> "number", v |-> a.v]
    ELSE [tok |-> "null"]

JsonStringify(data) ==
    IF data.t = "object"
    THEN [json |-> "object",
          members |-> [k \in {m \in DOMAIN data.props : data.props[m].t # "undefined"}
                          |-> JsonToken(data.props[k])]]
    ELSE [json |-> "null"]

InvalidJson == [json |-> "invalid"]
EmptyText == [json |-> "empty"]

\* JSON.parse: a value, or a SyntaxError.
FromToken(tk) ==
    IF tk.tok = "string" THEN Str(tk.v)
    ELSE IF tk.tok = "number" THEN Num(tk.v)
    ELSE Null

JsonParse(text) ==
    IF text.json = "object"
    THEN [threw |-> FALSE,
          value |-> Obj([k \in DOMAIN text.members |-> FromToken(text.members[k])])]
    ELSE IF text.json = "null"
    THEN [threw |-> FALSE, value |-> Null]
    ELSE [threw |-> TRUE, value |-> Null]

\* sessionStorage.getItem("userData"): null, or a string.
NoEntry == [kind |-> "none"]
EmptyString == [kind |-> "empty"]
Garbage == [kind |-> "garbage"]
Salted(key, salt, plain) ==
    [kind |-> "salted", key |-> key, salt |-> salt, plain |-> plain]

\* encrypt(data): CryptoJS.AES.encrypt(JSON.stringify(data), SECRET_KEY)
\* .toString(), under a salt drawn at random.
Encrypt(data, salt) == Salted(SECRET_KEY, salt, JsonStringify(data))

\* CryptoJS.AES.decrypt(cipher, key): the plaintext bytes under the right
\* key; bytes that are no UTF-8 under another key; no bytes at all for a
\* string that is no salted ciphertext.
AESDecrypt(cipher, key) ==
    IF cipher.kind = "salted" /\ cipher.key = key
    THEN [bytes |-> "utf8", text |-> cipher.plain]
    ELSE IF cipher.kind = "salted"
    THEN [bytes |-> "malformed", text |-> EmptyText]
    ELSE [bytes |-> "utf8", text |-> EmptyText]

DecryptKeyMismatch == OtherKey
DecryptKey == SECRET_KEY

\* The body of decrypt's try block: bytes.toString(CryptoJS.enc.Utf8) throws
\* on malformed UTF-8, JSON.parse on text that is no JSON.
TryDecrypt(cipher) ==
    LET bytes == AESDecrypt(cipher, DecryptKey)
    IN  IF bytes.bytes = "malformed"
        THEN [threw |-> TRUE, value |-> Null]
        ELSE JsonParse(bytes.text)

\* decrypt(cipher): catch (err) { return null; }
DecryptUncaught(cipher) ==
    IF TryDecrypt(cipher).threw THEN Thrown ELSE TryDecrypt(cipher).value
Decrypt(cipher) ==
    IF TryDecrypt(cipher).threw THEN Null ELSE TryDecrypt(cipher).value

\* `stored ? ... : null` and `if (userData)`.
StoredTruthy(stored) == stored.kind \notin {"none", "empty"}
Truthy(value) == value.t \notin {"null", "undefined"}

\* sessionStorage.removeItem("userData")
KeepItem(entry) == entry
RemoveItem(entry) == NoEntry

Unknown == [known |-> FALSE, rec |-> Null]

\* What the page may find in sessionStorage when it first loads.
InitialStorage ==
    {NoEntry, EmptyString, Garbage,
     Salted(OtherKey, 1, JsonStringify(Obj([token |-> Str("t"), id |-> Str("1"), email |-> Str("e@x.com")]))),
     Salted(SECRET_KEY, 1, InvalidJson),
     Salted(SECRET_KEY, 1, [json |-> "null"]),
     Encrypt(Obj([token |-> Str("t"), id |-> Str("1"), email |-> Str("e@x.com")]), 1)}

SessionIdle ==
    /\ spc = "idle"
    /\ storage = NoEntry
    /\ userData = Null
    /\ effectPending = FALSE
    /\ prev = Unknown
    /\ untouched = TRUE
    /\ stored0 = NoEntry

BuildIdle ==
    /\ pc = "idle"
    /\ dirExists = FALSE
    /\ fs = EmptyDirectory
    /\ listing = <<>>
    /\ idx = 0
    /\ code = EmptyContent
    /\ obfuscated = EmptyContent
    /\ log = <<>>
    /\ ops = <<>>
    /\ visited = <<>>
    /\ dir0 = EmptyDirectory
    /\ failedAt = -1

SessionInit ==
    /\ spc = "unmounted"
    /\ storage \in InitialStorage
    /\ userData = Null
    /\ effectPending = FALSE
    /\ prev = Unknown
    /\ untouched = TRUE
    /\ stored0 = NoEntry
    /\ BuildIdle

\* AuthProvider renders for the first time on a page: the useState
\* initialiser reads sessionStorage; the effect is scheduled.
Mount ==
    /\ spc = "unmounted"
    /\ LET stored == storage
           initial == IF StoredTruthy(stored) THEN Decrypt(stored) ELSE Null
       IN  IF initial.t = "thrown"
           THEN /\ spc' = "crashed"
                /\ userData' = Null
                /\ effectPending' = FALSE
           ELSE /\ spc' = "mounted"
                /\ userData' = initial
                /\ effectPending' = TRUE
    /\ stored0' = storage
    /\ untouched' = TRUE
    /\ UNCHANGED <<storage, prev>>
    /\ UNCHANGED buildVars

\* The useEffect callback, for the userData of the latest render.
RunEffect ==
    /\ spc = "mounted"
    /\ effectPending
    /\ IF Truthy(userData)
       THEN \E salt \in Salts : storage' = Encrypt(userData, salt)
       ELSE storage' = RemoveItem(storage)
    /\ effectPending' = FALSE
    /\ UNCHANGED <<spc, userData, prev, untouched, stored0>>
    /\ UNCHANGED buildVars

\* A component calls setUserData(value): a record (a new object) or null.
\* Setting null over null is no state change and schedules no effect.
SetUserData(value) ==
    /\ spc = "mounted"
    /\ userData' = value
    /\ effectPending' = (effectPending \/ value.t # "null" \/ userData.t # "null")
    /\ untouched' = FALSE
    /\ prev' = Unknown
    /\ stored0' = NoEntry
    /\ UNCHANGED <<spc, storage>>
    /\ UNCHANGED buildVars

\* The page is reloaded: the in-memory state is lost, sessionStorage stays.
Reload ==
    /\ spc = "mounted"
    /\ spc' = "unmounted"
    /\ prev' = IF effectPending THEN Unknown ELSE [known |-> TRUE, rec |-> userData]
    /\ userData' = Null
    /\ effectPending' = FALSE
    /\ UNCHANGED <<storage, untouched, stored0>>
    /\ UNCHANGED buildVars

SessionNext ==
    \/ Mount
    \/ RunEffect
    \/ \E value \in Records \cup {Null} : SetUserData(value)
    \/ Reload

SessionSpec == SessionInit /\ [][SessionNext]_vars

(***************************************************************************)
(* scripts/obfuscate.js                                                    *)
(***************************************************************************)
Init ==
    /\ pc = "start"
    /\ dirExists \in BOOLEAN
    /\ fs \in Directories
    /\ (~dirExists => fs = EmptyDirectory)
    /\ listing = <<>>
    /\ idx = 0
    /\ code = EmptyContent
    /\ obfuscated = EmptyContent
    /\ log = <<>>
    /\ ops = <<>>
    /\ visited = <<>>
    /\ dir0 = fs
    /\ failedAt = -1
    /\ SessionIdle

\* fs.readdirSync(buildDir): the names of the direct entries, files and
\* subdirectories alike, in an order the file system chooses.
Readdir ==
    /\ pc = "start"
    /\ dirExists
    /\ listing' \in Perms(Present(fs))
    /\ idx' = 1
    /\ pc' = "loop"
    /\ ops' = Append(ops, Call("readdir", <<>>, TRUE))
    /\ UNCHANGED <<dirExists, fs, code, obfuscated, log, visited, dir0, failedAt>>
    /\ UNCHANGED sessionVars

\* readdirSync throws (ENOENT, EACCES): uncaught, before any callback runs.
ReaddirFail ==
    /\ pc = "start"
    /\ pc' = "failed"
    /\ failedAt' = 0
    /\ ops' = Append(ops, Call("readdir", <<>>, FALSE))
    /\ UNCHANGED <<dirExists, fs, listing, idx, code, obfuscated, log, visited, dir0>>
    /\ UNCHANGED sessionVars

InCallback == pc = "loop" /\ idx <= Len(listing)
file == listing[idx]

\* file.endsWith(".map"): unlinkSync succeeds, the line is logged, return.
UnlinkOk ==
    /\ InCallback
    /\ IsMap(file)
    /\ CanUnlink(fs[file])
    /\ fs' = [fs EXCEPT ![file] = Absent]
    /\ log' = Append(log, DeletedLine(file))
    /\ ops' = Append(ops, Call("unlink", file, TRUE))
    /\ visited' = Append(visited, file)
    /\ idx' = NextIndex
    /\ UNCHANGED <<pc, dirExists, listing, code, obfuscated, dir0, failedAt>>
    /\ UNCHANGED sessionVars

\* unlinkSync throws (a directory, permissions, ...).
UnlinkFail ==
    /\ InCallback
    /\ IsMap(file)
    /\ ops' = Append(ops, Call("unlink", file, FALSE))
    /\ visited' = Append(visited, file)
    /\ failedAt' = idx
    /\ pc' = OnError.pc
    /\ idx' = OnError.idx
    /\ UNCHANGED <<dirExists, fs, listing, code, obfuscated, log, dir0>>
    /\ UNCHANGED sessionVars

\* file.endsWith(".js"): readFileSync succeeds.
ReadOk ==
    /\ InCallback
    /\ ~IsMap(file)
    /\ IsJs(file)
    /\ CanRead(fs[file])
    /\ code' = fs[file].content
    /\ ops' = Append(ops, Call("read", file, TRUE))
    /\ visited' = Append(visited, file)
    /\ pc' = "obfuscate"
    /\ UNCHANGED <<dirExists, fs, listing, idx, obfuscated, log, dir0, failedAt>>
    /\ UNCHANGED sessionVars

\* readFileSync throws (a directory, permissions, ...).
ReadFail ==
    /\ InCallback
    /\ ~IsMap(file)
    /\ IsJs(file)
    /\ ops' = Append(ops, Call("read", file, FALSE))
    /\ visited' = Append(visited, file)
    /\ failedAt' = idx
    /\ pc' = OnError.pc
    /\ idx' = OnError.idx
    /\ UNCHANGED <<dirExists, fs, listing, code, obfuscated, log, dir0>>
    /\ UNCHANGED sessionVars

\* JavaScriptObfuscator.obfuscate(code, options) returns.
ObfuscateOk ==
    /\ pc = "obfuscate"
    /\ obfuscated' = Obfuscate(code)
    /\ ops' = Append(ops, Call("obfuscate", file, TRUE))
    /\ pc' = "write"
    /\ UNCHANGED <<dirExists, fs, listing, idx, code, log, visited, dir0, failedAt>>
    /\ UNCHANGED sessionVars

\* The obfuscator throws (the file is not parseable JavaScript).
ObfuscateFail ==
    /\ pc = "obfuscate"
    /\ ops' = Append(ops, Call("obfuscate", file, FALSE))
    /\ failedAt' = idx
    /\ pc' = OnError.pc
    /\ idx' = OnError.idx
    /\ UNCHANGED <<dirExists, fs, listing, code, obfuscated, log, visited, dir0>>
    /\ UNCHANGED sessionVars

\* writeFileSync succeeds, the line is logged.
WriteOk ==
    /\ pc = "write"
    /\ fs' = [fs EXCEPT ![file].content = WrittenContent]
    /\ log' = Append(log, ObfuscatedLine(file))
    /\ ops' = Append(ops, Call("write", file, TRUE))
    /\ idx' = NextIndex
    /\ pc' = "loop"
    /\ UNCHANGED <<dirExists, listing, code, obfuscated, visited, dir0, failedAt>>
    /\ UNCHANGED sessionVars

\* writeFileSync throws: either before the file was opened (content kept)
\* or after it was truncated.
WriteFail ==
    /\ pc = "write"
    /\ \E left \in {fs[file].content, EmptyContent} :
           fs' = [fs EXCEPT ![file].content = left]
    /\ ops' = Append(ops, Call("write", file, FALSE))
    /\ failedAt' = idx
    /\ pc' = OnError.pc
    /\ idx' = OnError.idx
    /\ UNCHANGED <<dirExists, listing, code, obfuscated, log, visited, dir0>>
    /\ UNCHANGED sessionVars

\* Neither suffix: the callback returns without doing anything.
Skip ==
    /\ InCallback
    /\ ~IsMap(file)
    /\ ~IsJs(file)
    /\ visited' = Append(visited, file)
    /\ idx' = NextIndex
    /\ UNCHANGED <<pc, dirExists, fs, listing, code, obfuscated, log, ops, dir0, failedAt>>
    /\ UNCHANGED sessionVars

\* forEach has run through the array: the script ends, exit code 0.
Finish ==
    /\ pc = "loop"
    /\ idx > Len(listing)
    /\ pc' = "done"
    /\ UNCHANGED <<dirExists, fs, listing, idx, code, obfuscated, log, ops, visited, dir0, failedAt>>
    /\ UNCHANGED sessionVars

Next ==
    \/ Readdir
    \/ ReaddirFail
    \/ UnlinkOk
    \/ UnlinkFail
    \/ ReadOk
    \/ ReadFail
    \/ ObfuscateOk
    \/ ObfuscateFail
    \/ WriteOk
    \/ WriteFail
    \/ Skip
    \/ Finish

Spec == Init /\ [][Next]_vars

(***************************************************************************)
(* Properties of the post-build pass.  They are stated with the suffix     *)
(* rules of the specification (EndsWith on the name), not with the         *)
(* script's own tests.                                                     *)
(***************************************************************************)
MapName(f) == EndsWith(f, DotMap)
JsName(f) == ~EndsWith(f, DotMap) /\ EndsWith(f, DotJs)
OtherName(f) == ~EndsWith(f, DotMap) /\ ~EndsWith(f, DotJs)

Count(seq, x) == Cardinality({i \in 1..Len(seq) : seq[i] = x})
OpsOn(f) == {i \in 1..Len(ops) : ops[i].file = f}
LinesOn(f) == {i \in 1..Len(log) : log[i].file = f}

\* What a successful callback leaves of entry f of directory d.
ExpectedEntry(d, f) ==
    IF d[f] = Absent THEN Absent
    ELSE IF MapName(f) THEN Absent
    ELSE IF JsName(f) THEN [kind |-> "file", content |-> Obfuscate(d[f].content)]
    ELSE d[f]

\* The two log lines of the specification.
LineDeleted(f) == [text |-> "Deleted MAP:", file |-> f]
LineObfuscated(f) == [text |-> "Obfuscated:", file |-> f]

ExpectedLog(d) ==
    {LineDeleted(f) : f \in {g \in Present(d) : MapName(g)}}
        \cup {LineObfuscated(f) : f \in {g \in Present(d) : JsName(g)}}

\* C1: when the pass has run to completion, no entry whose name ends with
\* ".map" remains in the directory.
C1_NoMapRemains ==
    pc = "done" => \A f \in FileNames : MapName(f) => fs[f] = Absent

C1_Witness ==
    /\ pc = "done"
    /\ dir0[AJsMap] # Absent
    /\ dir0[BMap] # Absent
    /\ fs[AJsMap] = Absent

\* C2: after a completed pass every entry that ended with ".js" before it
\* still exists as a file at the same path, and its content is the
\* obfuscator's output on the content it had before the pass: applied once,
\* to that file's own content.
C2_JsObfuscatedOnce ==
    pc = "done" =>
        \A f \in FileNames :
            (JsName(f) /\ dir0[f] # Absent) =>
                /\ fs[f] # Absent
                /\ fs[f].kind = "file"
                /\ fs[f].content = [src |-> f, obf |-> 1]
                /\ fs[f].content = Obfuscate(dir0[f].content)
                /\ fs[f].content # dir0[f].content

C2_Witness ==
    /\ pc = "done"
    /\ dir0[AJs] # Absent
    /\ dir0[EJs] # Absent
    /\ fs[AJs].content = [src |-> AJs, obf |-> 1]
    /\ fs[EJs].content = [src |-> EJs, obf |-> 1]

\* C3: an entry whose name ends with neither ".map" nor ".js" is untouched
\* at every point of a run, completed or aborted: same entry, same content,
\* no operation on it and no log line naming it.
C3_OthersUntouched ==
    \A f \in FileNames :
        (OtherName(f) /\ dir0[f] # Absent) =>
            /\ fs[f] = dir0[f]
            /\ OpsOn(f) = {}
            /\ LinesOn(f) = {}

C3_Witness ==
    /\ pc = "failed"
    /\ \E i \in 1..Len(visited) : visited[i] = PlainMap
    /\ \E i \in 1..Len(visited) : visited[i] = DJsx
    /\ Len(log) = 0
    /\ failedAt = 3

\* C4 as stated: no delete, read or overwrite is ever attempted on a
\* subdirectory, whatever its name, and a subdirectory never makes the pass
\* fail.
C4_SubdirsAlwaysSkipped ==
    /\ \A f \in FileNames : dir0[f].kind = "dir" => OpsOn(f) = {}
    /\ (failedAt >= 1 => dir0[listing[failedAt]].kind # "dir")

\* C4 amended: a subdirectory is never entered, deleted or overwritten, and
\* one whose name ends with neither suffix is skipped without any
\* operation; but the suffix rules do apply to subdirectory names: on a
\* subdirectory named *.map the unlink, on one named *.js the read, is
\* attempted once, fails, and aborts the pass there.
C4_SubdirsBySuffix ==
    \A f \in FileNames :
        dir0[f].kind = "dir" =>
            /\ fs[f] = dir0[f]
            /\ LinesOn(f) = {}
            /\ (OtherName(f) => OpsOn(f) = {})
            /\ \A i \in OpsOn(f) :
                   /\ ~ops[i].ok
                   /\ ops[i].op = (IF MapName(f) THEN "unlink" ELSE "read")
                   /\ i = Len(ops)
                   /\ pc = "failed"
                   /\ listing[failedAt] = f
            /\ (f \in {visited[i] : i \in 1..Len(visited)} /\ ~OtherName(f)
                    => OpsOn(f) # {})

C4_Witness ==
    /\ pc = "failed"
    /\ dir0[EJs].kind = "dir"
    /\ dir0[DJsx].kind = "dir"
    /\ visited = <<DJsx, EJs>>
    /\ ops[Len(ops)] = Call("read", EJs, FALSE)

\* C5: when an operation fails the pass stops at that entry: it ends
\* failed, later entries are as before the pass with no operation on them,
\* earlier entries keep their deleted or transformed result, and no log
\* line names the failing entry.  A failed listing touches nothing.
C5_AbortOnFailure ==
    failedAt >= 0 =>
        /\ pc = "failed"
        /\ ~ops[Len(ops)].ok
        /\ \A i \in 1..(Len(ops) - 1) : ops[i].ok
        /\ (failedAt = 0 => fs = dir0 /\ log = <<>> /\ visited = <<>>)
        /\ \A j \in (failedAt + 1)..Len(listing) :
               /\ fs[listing[j]] = dir0[listing[j]]
               /\ OpsOn(listing[j]) = {}
               /\ LinesOn(listing[j]) = {}
        /\ \A j \in 1..(failedAt - 1) :
               fs[listing[j]] = ExpectedEntry(dir0, listing[j])
        /\ (failedAt >= 1 => LinesOn(listing[failedAt]) = {})

C5_Witness ==
    /\ pc = "failed"
    /\ failedAt = 2
    /\ Len(listing) = 3
    /\ Len(log) = 1
    /\ dir0[listing[3]].kind = "file"
    /\ ~OtherName(listing[3])
    /\ ops[Len(ops)].op = "write"

C10_OneLinePerProcessedFile ==
    /\ \A f \in FileNames :
           /\ Count(log, LineDeleted(f)) =
                  (IF MapName(f) /\ dir0[f] # Absent /\ fs[f] = Absent THEN 1 ELSE 0)
           /\ Count(log, LineObfuscated(f)) =
                  (IF JsName(f) /\ dir0[f] # Absent
                        /\ fs[f].content = Obfuscate(dir0[f].content) THEN 1 ELSE 0)
    /\ Len(log) = Cardinality({i \in 1..Len(ops) :
                                  ops[i].ok /\ ops[i].op \in {"unlink", "write"}})
    /\ \A i \in 1..Len(log) :
           log[i] \in {LineDeleted(log[i].file), LineObfuscated(log[i].file)}
    /\ (Present(dir0) = {} /\ pc = "done" => log = <<>>)

C10_Witness ==
    /\ pc = "done"
    /\ log = <<LineObfuscated(AJs), LineDeleted(AJsMap)>>
    /\ visited = <<AJs, CCss, AJsMap>>

(***************************************************************************)
(* Properties of the session component.                                    *)
(***************************************************************************)
\* A stored string that does not decrypt under the fixed key to JSON text.
Corrupted(entry) ==
    \/ entry.kind = "garbage"
    \/ entry.kind = "salted" /\ entry.key # SECRET_KEY
    \/ entry.kind = "salted" /\ entry.key = SECRET_KEY
           /\ entry.plain.json \notin {"object", "null"}

\* A record JSON text can carry: every field a string, a finite number or
\* null.
JsonRepresentable(value) ==
    \/ value.t = "null"
    \/ /\ value.t = "object"
       /\ \A k \in DOMAIN value.props :
              \/ value.props[k].t \in {"string", "null"}
              \/ value.props[k].t = "number" /\ value.props[k].v # "NaN"

\* C7: once the effect has run for the current record, sessionStorage
\* holds a ciphertext, under the fixed key, of exactly that record when it
\* is present, and no entry when it is absent.
C7_StorageFollowsRecord ==
    (spc = "mounted" /\ ~effectPending) =>
        IF userData.t = "object"
        THEN /\ storage.kind = "salted"
             /\ storage.key = SECRET_KEY
             /\ storage.plain = JsonStringify(userData)
        ELSE storage = NoEntry

C7_Witness ==
    /\ spc = "mounted"
    /\ ~effectPending
    /\ untouched
    /\ Corrupted(stored0)
    /\ userData = Null
    /\ storage = NoEntry

\* C8 as stated: for every record, decrypt(encrypt(r)) is r, and a page
\* started after r was persisted begins with r.
C8_RoundTripEveryRecord ==
    /\ (spc = "mounted" /\ userData.t = "object" =>
            \A salt \in Salts : Decrypt(Encrypt(userData, salt)) = userData)
    /\ (spc = "mounted" /\ untouched /\ prev.known => userData = prev.rec)

\* C8 amended: the round trip is exact for every record whose field values
\* JSON can carry (strings, finite numbers, null): decrypt(encrypt(r)) is r
\* under every salt, and a page started after such an r was persisted
\* begins with r.
C8_RoundTripJsonRecords ==
    /\ (spc = "mounted" /\ userData.t = "object" /\ JsonRepresentable(userData) =>
            \A salt \in Salts : Decrypt(Encrypt(userData, salt)) = userData)
    /\ (spc = "mounted" /\ untouched /\ prev.known /\ JsonRepresentable(prev.rec) =>
            userData = prev.rec)

C8_Witness ==
    /\ spc = "mounted"
    /\ untouched
    /\ prev.known
    /\ prev.rec = Obj([token |-> Str("t"), id |-> Num("1"), email |-> Null])
    /\ userData = prev.rec

\* C9: a stored string that is corrupted or not decryptable under the
\* fixed key, an empty string or no entry at all, starts the provider with
\* a null record; the failure never escapes decrypt.
C9_CorruptedIsNoSession ==
    /\ spc # "crashed"
    /\ (spc = "mounted" /\ untouched
            /\ (Corrupted(stored0) \/ stored0 \in {NoEntry, EmptyString}) =>
            userData = Null)

C9_Witness ==
    /\ spc = "mounted"
    /\ untouched
    /\ stored0.kind = "salted"
    /\ stored0.key = OtherKey
    /\ userData = Null
    /\ effectPending

====
